---- MODULE Spec2Model ----
(***************************************************************************)
(* Model of hh_automation.services.apply.VacancyApplyService: one call of  *)
(* apply(url, message) as a step machine with one step per awaited page    *)
(* operation.  The page (its DOM, and whether an operation raises) is the  *)
(* environment.  Text is modelled as sequences of one-character strings.   *)
(* Spec follows one call of apply; CaptureSpec follows the diagnostic       *)
(* captures of two concurrent calls, TagSpec one capture with any reason,  *)
(* and CookieSpec one call of hh_automation.cli.login.get_cookies.         *)
(***************************************************************************)
EXTENDS Naturals, Sequences, FiniteSets

VARIABLES
    pc,        \* position of the coroutine
    message,   \* the `message` argument
    dom,       \* what the loaded page's locators match
    after,     \* what the locators match once clicks have changed the page
    modal,     \* the modal overlay as the modal routine sees it
    scope,     \* the `async with browser_manager.get_page(...)` scope
    exits,     \* how many times the scope was exited
    pageVar,   \* TRUE when the local `page` is not None
    outcome,   \* value returned / exception in flight
    result,    \* the local `result` of apply: what the last strategy returned
    success,   \* what _check_application_success returned
    caller,    \* who called _fill_cover_letter_modal
    shotRet,   \* who called _save_screenshot
    reason,    \* _save_screenshot's `reason` argument
    captures,  \* the reasons _save_screenshot was called with
    applyBtn,  \* the locator held by the local `apply_btn`
    clicks,    \* control -> number of completed clicks
    fills,     \* sequence of <<field, text>> of completed fills
    shots,     \* sequence of captures attempted by page.screenshot
    invoked,   \* strategies called so far
    pageOps,   \* page operations invoked so far
    staleOps,  \* page operations invoked after the scope was exited
    faults,    \* number of page operations that raised
    failed,    \* the sites at which an operation raised
    cancelled, \* TRUE once the call was cancelled
    session,   \* the session file read by get_cookies
    header,    \* what get_cookies returned
    clock,     \* the UTC clock, in seconds
    capt,      \* the _save_screenshot calls of concurrently running applies
    disk       \* the images in the screenshots directory

\* the locals of one call of apply, and its page
applyVars == <<pc, message, dom, after, modal, scope, exits, pageVar, outcome,
               result, success, caller, shotRet, reason, captures, applyBtn,
               clicks, fills, shots, invoked, pageOps, staleOps, faults, failed,
               cancelled>>

\* the state outside one call of apply
side == <<session, header, clock, capt, disk>>

vars == <<pc, message, dom, after, modal, scope, exits, pageVar, outcome, result,
          success, caller, shotRet, reason, captures, applyBtn, clicks, fills,
          shots, invoked, pageOps, staleOps, faults, failed, cancelled, side>>

----------------------------------------------------------------------------
(* Bounds *)

\* at most this many page operations raise during one call
MaxFaults == 1

\* at most this many cookies in the stored session
MaxCookies == 3

\* the clock is followed for this many ticks
MaxClock == 3

\* reason tags of up to this many characters
MaxTagLen == 3

----------------------------------------------------------------------------
(* Text *)

UpperAlpha == <<"A", "B", "C", "D", "E", "F", "G", "H", "I", "J", "K", "L", "M",
                "N", "O", "P", "Q", "R", "S", "T", "U", "V", "W", "X", "Y", "Z">>
LowerAlpha == <<"a", "b", "c", "d", "e", "f", "g", "h", "i", "j", "k", "l", "m",
                "n", "o", "p", "q", "r", "s", "t", "u", "v", "w", "x", "y", "z">>
Digits == <<"0", "1", "2", "3", "4", "5", "6", "7", "8", "9">>

InSeq(c, s) == \E i \in 1..Len(s) : s[i] = c

\* str.lower(), one character
LowerChar(c) ==
    IF InSeq(c, UpperAlpha)
    THEN LowerAlpha[CHOOSE i \in 1..Len(UpperAlpha) : UpperAlpha[i] = c]
    ELSE c

\* str.lower()
Lower(s) == [i \in 1..Len(s) |-> LowerChar(s[i])]

\* `sub in s`
Contains(s, sub) ==
    \E i \in 1..(Len(s) + 1) :
        /\ i + Len(sub) - 1 <= Len(s)
        /\ SubSeq(s, i, i + Len(sub) - 1) = sub

\* the character class [a-zA-Z0-9_-]
SafeChar(c) ==
    InSeq(c, LowerAlpha) \/ InSeq(c, UpperAlpha) \/ InSeq(c, Digits) \/ c = "_" \/ c = "-"

\* re.sub(r"[^a-zA-Z0-9_-]+", "_", s): every maximal run of other characters
\* becomes one "_"
RECURSIVE SubUnsafe(_)
SubUnsafe(s) ==
    IF s = <<>> THEN <<>>
    ELSE IF SafeChar(Head(s)) THEN <<Head(s)>> \o SubUnsafe(Tail(s))
    ELSE IF Len(s) > 1 /\ ~SafeChar(s[2]) THEN SubUnsafe(Tail(s))
    ELSE <<"_">> \o SubUnsafe(Tail(s))

RECURSIVE LStrip(_)
LStrip(s) == IF s # <<>> /\ Head(s) = "_" THEN LStrip(Tail(s)) ELSE s

RECURSIVE RStrip(_)
RStrip(s) ==
    IF s # <<>> /\ s[Len(s)] = "_" THEN RStrip(SubSeq(s, 1, Len(s) - 1)) ELSE s

\* str.strip("_") (StripLeft: str.lstrip("_"))
StripLeft(s) == LStrip(s)
Strip(s) == RStrip(LStrip(s))

StrError == <<"e", "r", "r", "o", "r">>

\* safe_reason of _save_screenshot
SafeReason(r) ==
    LET t == Lower(Strip(SubUnsafe(r)))
    IN  IF t = <<>> THEN StrError ELSE t

StrCaptcha == <<"c", "a", "p", "t", "c", "h", "a">>
StrRobot == <<"r", "o", "b", "o", "t">>

TagNavigationTimeout ==
    <<"n", "a", "v", "i", "g", "a", "t", "i", "o", "n", "_",
      "t", "i", "m", "e", "o", "u", "t">>
TagNavigationError ==
    <<"n", "a", "v", "i", "g", "a", "t", "i", "o", "n", "_", "e", "r", "r", "o", "r">>
TagStatusUnclear ==
    <<"s", "t", "a", "t", "u", "s", " ", "u", "n", "c", "l", "e", "a", "r">>
TagApplyError == <<"a", "p", "p", "l", "y", "_", "e", "r", "r", "o", "r">>

----------------------------------------------------------------------------
(* Inputs and the page *)

\* cover letters: none, or some text
Messages == {<<>>, <<"h", "i">>}

\* (title, content) of the pages the call may be pointed at
Documents ==
    { [title   |-> <<"J", "o", "b">>,
       content |-> <<"J", "o", "b", " ", "a", "d">>],
      [title   |-> <<"C", "a", "p", "t", "c", "h", "a">>,
       content |-> <<"C", "a", "p", "t", "c", "h", "a">>],
      [title   |-> <<"J", "o", "b">>,
       content |-> <<"J", "o", "b", " ", "R", "o", "b", "o", "t">>],
      [title   |-> <<"J", "o", "b">>,
       content |-> <<"J", "o", "b", " ", "c", "a", "p", "t", "c", "h", "a">>] }

Controls == {"link", "dropdown", "with_letter", "apply_top", "apply_bottom",
             "modal_add", "modal_submit", "post_submit"}

NoModal == [shown |-> FALSE, add |-> FALSE, area |-> FALSE, submit |-> FALSE]

\* the overlays wait_for_selector may find
Modals == [shown : {TRUE}, add : BOOLEAN, area : BOOLEAN, submit : BOOLEAN]

\* ApplyResult(status, message).to_dict()
Result(status, msg) == [kind |-> "return", status |-> status, message |-> msg]

Raised(e) == [kind |-> "raise", exc |-> e]

NoOutcome == [kind |-> "none"]

----------------------------------------------------------------------------
(* The stored session and the screenshots directory *)

CookieNames == {<<"a">>, <<"i", "d">>}
CookieValues == {<<>>, <<"1">>}

\* the entries of state["cookies"], as far as get_cookies reads them
Cookies == [name : CookieNames, value : CookieValues]

CookieSeqs == UNION {[1..n -> Cookies] : n \in 0..MaxCookies}

\* settings.session_file does not exist
NoSession == [exists |-> FALSE, keyed |-> FALSE, cookies |-> <<>>]

\* the session files: none, a state without the "cookies" key, a state with it
Sessions ==
    {NoSession}
        \cup {[exists |-> TRUE, keyed |-> FALSE, cookies |-> <<>>]}
        \cup {[exists |-> TRUE, keyed |-> TRUE, cookies |-> s] : s \in CookieSeqs}

\* get_cookies was not called
NotCalled == [kind |-> "none"]

\* the concurrently running calls of apply
Invocations == {1, 2}

\* a call of apply that has not reached _save_screenshot
IdleCapture == [pc |-> "idle", reason |-> <<>>, tag |-> <<>>, stamp |-> 0,
                saved |-> FALSE]

\* nothing but one call of apply goes on
SideIdle ==
    /\ session = NoSession
    /\ header = NotCalled
    /\ clock = 0
    /\ capt = [i \in Invocations |-> IdleCapture]
    /\ disk = {}

----------------------------------------------------------------------------
(* Control-flow helpers *)

\* what a page operation raises: playwright's Error (TimeoutError is one of
\* them; apply tells the two apart only around page.goto)
PageErrors == {"Error"}

\* the operation completes
Ok == UNCHANGED <<faults, failed>>

\* the positions inside _fill_cover_letter_modal
ModalPcs == {"m_wait", "m_add_count", "m_add_scroll", "m_add_click", "m_add_settle",
             "m_area_count", "m_fill", "m_sub_count", "m_sub_scroll", "m_sub_click",
             "m_sub_settle"}

\* where an operation raised: the position, or "modal" for the modal routine
\* (its one except clause treats all of them alike)
Site(p) == IF p \in ModalPcs THEN "modal" ELSE p

\* the operation raises
Fault ==
    /\ faults < MaxFaults
    /\ faults' = faults + 1
    /\ failed' = failed \cup {Site(pc)}

\* a page operation is invoked
PageOp(op) ==
    /\ pageOps' = pageOps \cup {op}
    /\ staleOps' = IF scope = "open" THEN staleOps ELSE staleOps \cup {op}

\* None, the value of a strategy that declines
None == [kind |-> "none"]

\* control moves on inside the `async with` body
Goto(p) == pc' = p /\ UNCHANGED <<outcome, result>>

\* a strategy returns None to apply, which goes on at p
Decline(p) == pc' = p /\ result' = None /\ UNCHANGED outcome

\* `return ....to_dict()` inside the `async with` body: the scope is exited
\* before apply returns
Return(r) == pc' = "aexit" /\ outcome' = r /\ UNCHANGED result

\* a strategy returns r to apply: `if result: return result.to_dict()`
\* (ProduceIgnored: the caller goes on at p as if it had got None)
ProduceIgnored(r, p) == pc' = p /\ result' = r /\ UNCHANGED outcome
Produce(r, p) == pc' = "aexit" /\ outcome' = r /\ result' = r

\* an exception leaves the `async with` body: the scope is exited, then the
\* except clauses of apply see it (ThrowPastExit: without the scope exit)
ThrowPastExit(e) == pc' = "except" /\ outcome' = Raised(e) /\ UNCHANGED result
Throw(e) == pc' = "aexit" /\ outcome' = Raised(e) /\ UNCHANGED result

\* `await self._save_screenshot(page, r)`
CallShot(r, ret) ==
    /\ pc' = "shot_mkdir"
    /\ reason' = r
    /\ shotRet' = ret
    /\ captures' = Append(captures, r)
    /\ UNCHANGED <<outcome, result>>

\* a click is completed (ClickNone: it leaves no trace on the page)
ClickNone(c) == UNCHANGED clicks
Click(c) == clicks' = [clicks EXCEPT ![c] = @ + 1]

Truthy(s) == s # <<>>

----------------------------------------------------------------------------
(* State detectors *)

\* _check_bot_protection, given what page.title() and page.content() returned
BotProtection(title, content) ==
    Contains(Lower(title), StrCaptcha) \/ Contains(Lower(content), StrRobot)

\* _check_application_success, given the three locator counts
ApplicationSuccess(d) == d.sent \/ d.applied \/ d.delivered

----------------------------------------------------------------------------
(* apply: acquisition, navigation, detectors *)

\* the locals of apply and the page before the call starts
ApplyStart(msg, d) ==
    /\ pc = "start"
    /\ message = msg
    /\ dom = d
    /\ after = [with_letter |-> FALSE, delivered |-> FALSE, area |-> FALSE,
                post_submit |-> FALSE, sent |-> FALSE, applied |-> FALSE]
    /\ modal = NoModal
    /\ scope = "none"
    /\ exits = 0
    /\ pageVar = FALSE
    /\ outcome = NoOutcome
    /\ result = None
    /\ success = "unknown"
    /\ captures = <<>>
    /\ failed = {}
    /\ caller = "none"
    /\ shotRet = "none"
    /\ reason = <<>>
    /\ applyBtn = "none"
    /\ clicks = [c \in Controls |-> 0]
    /\ fills = <<>>
    /\ shots = <<>>
    /\ invoked = {}
    /\ pageOps = {}
    /\ staleOps = {}
    /\ faults = 0
    /\ cancelled = FALSE

Init ==
    /\ \E msg \in Messages, doc \in Documents, a, l, t, b, d \in BOOLEAN :
          ApplyStart(msg, [title |-> doc.title, content |-> doc.content,
                           applied |-> a, link |-> l, top |-> t, bottom |-> b,
                           dropdown |-> d])
    /\ SideIdle

\* `async with browser_manager.get_page(use_session=True) as page`
Acquire ==
    /\ pc = "start"
    /\ \/ /\ scope' = "open"
          /\ pageVar' = TRUE
          /\ Ok
          /\ Goto("goto")
       \/ /\ \E e \in {"FileNotFoundError", "Error"} :
                pc' = "except" /\ outcome' = Raised(e) /\ UNCHANGED result
          /\ Fault
          /\ UNCHANGED <<scope, pageVar>>
    /\ UNCHANGED <<side, message, success, dom, after, modal, exits, caller,
                   shotRet, reason, captures, applyBtn, clicks, fills, shots,
                   invoked, pageOps, staleOps, cancelled>>

\* `await page.goto(url, ...)` and its two except clauses
Navigate ==
    /\ pc = "goto"
    /\ PageOp("goto")
    /\ \/ /\ Ok
          /\ Goto("bot_title")
          /\ UNCHANGED <<reason, shotRet, captures>>
       \/ /\ Fault
          /\ CallShot(TagNavigationTimeout, "nav")
       \/ /\ Fault
          /\ CallShot(TagNavigationError, "nav")
    /\ UNCHANGED <<side, message, success, dom, after, modal, scope, exits, pageVar,
                   caller, applyBtn, clicks, fills, shots, invoked,
                   cancelled>>

\* `title = await page.title()`
BotTitle ==
    /\ pc = "bot_title"
    /\ PageOp("title")
    /\ \/ Ok /\ Goto("bot_content")
       \/ Fault /\ \E e \in PageErrors : Throw(e)
    /\ UNCHANGED <<side, message, success, dom, after, modal, scope, exits, pageVar,
                   caller, shotRet, reason, captures, applyBtn, clicks, fills,
                   shots, invoked, cancelled>>

\* `content = await page.content()`, the test, and apply's use of it
BotContent ==
    /\ pc = "bot_content"
    /\ PageOp("content")
    /\ \/ /\ Ok
          /\ IF BotProtection(dom.title, dom.content)
             THEN Return(Result("error", "Bot protection triggered (captcha)"))
             ELSE Goto("applied_count")
       \/ Fault /\ \E e \in PageErrors : Throw(e)
    /\ UNCHANGED <<side, message, success, dom, after, modal, scope, exits, pageVar,
                   caller, shotRet, reason, captures, applyBtn, clicks, fills,
                   shots, invoked, cancelled>>

\* `return count > 0` of _check_already_applied (AlreadyAppliedNever: the
\* marker is overlooked)
AlreadyAppliedNever(count) == FALSE
AlreadyApplied(count) == count

\* _check_already_applied and apply's use of it
CheckAlreadyApplied ==
    /\ pc = "applied_count"
    /\ PageOp("count")
    /\ \/ /\ Ok
          /\ IF AlreadyApplied(dom.applied)
             THEN Return(Result("skipped", "Already applied"))
             ELSE Goto("a_count")
       \/ Fault /\ \E e \in PageErrors : Throw(e)
    /\ UNCHANGED <<side, message, success, dom, after, modal, scope, exits, pageVar,
                   caller, shotRet, reason, captures, applyBtn, clicks, fills,
                   shots, invoked, cancelled>>

----------------------------------------------------------------------------
(* Strategy A: _try_cover_letter_link *)

\* `if cover_letter_link_count > 0 and message` (LinkGuardNoMessage: without
\* the test of the message)
LinkGuardNoMessage(count, msg) == count
LinkGuard(count, msg) == count /\ Truthy(msg)

LinkCount ==
    /\ pc = "a_count"
    /\ PageOp("count")
    /\ invoked' = invoked \cup {"A"}
    /\ \/ /\ Ok
          /\ IF LinkGuard(dom.link, message)
             THEN Goto("a_click")
             ELSE Decline("top_count")
       \/ Fault /\ \E e \in PageErrors : Throw(e)
    /\ UNCHANGED <<side, message, success, dom, after, modal, scope, exits, pageVar,
                   caller, shotRet, reason, captures, applyBtn, clicks, fills,
                   shots, cancelled>>

\* `await cover_letter_link.first.click()`, then the modal routine is called
LinkClick ==
    /\ pc = "a_click"
    /\ PageOp("click")
    /\ \/ /\ Ok
          /\ Click("link")
          /\ caller' = "A"
          /\ Goto("m_wait")
       \/ /\ Fault
          /\ \E e \in PageErrors : Throw(e)
          /\ UNCHANGED <<clicks, caller>>
    /\ UNCHANGED <<side, message, success, dom, after, modal, scope, exits, pageVar,
                   shotRet, reason, captures, applyBtn, fills, shots, invoked,
                   cancelled>>

----------------------------------------------------------------------------
(* apply: the primary apply control *)

\* `apply_top_count = await apply_btn.count()`; the locator falls back to bottom
TopCount ==
    /\ pc = "top_count"
    /\ PageOp("count")
    /\ \/ /\ Ok
          /\ applyBtn' = IF dom.top THEN "top" ELSE "bottom"
          /\ Goto("btn_count")
       \/ /\ Fault
          /\ \E e \in PageErrors : Throw(e)
          /\ UNCHANGED applyBtn
    /\ UNCHANGED <<side, message, success, dom, after, modal, scope, exits, pageVar,
                   caller, shotRet, reason, captures, clicks, fills, shots,
                   invoked, cancelled>>

\* what the locator held by apply_btn matches (ApplyBtnVisibleAlways: the
\* second count is taken for granted)
ApplyBtnVisibleAlways == TRUE
ApplyBtnVisible == IF applyBtn = "top" THEN dom.top ELSE dom.bottom

\* `apply_bottom_count = await apply_btn.count()`
BtnCount ==
    /\ pc = "btn_count"
    /\ PageOp("count")
    /\ \/ /\ Ok
          /\ IF ApplyBtnVisible
             THEN Goto("b_count")
             ELSE Return(Result("error", "Apply button not found"))
       \/ Fault /\ \E e \in PageErrors : Throw(e)
    /\ UNCHANGED <<side, message, success, dom, after, modal, scope, exits, pageVar,
                   caller, shotRet, reason, captures, applyBtn, clicks, fills,
                   shots, invoked, cancelled>>

----------------------------------------------------------------------------
(* Strategy B: _try_dropdown_apply *)

DropdownGuard(count, msg) == count /\ Truthy(msg)

DropdownCount ==
    /\ pc = "b_count"
    /\ PageOp("count")
    /\ invoked' = invoked \cup {"B"}
    /\ \/ /\ Ok
          /\ IF DropdownGuard(dom.dropdown, message)
             THEN Goto("b_click")
             ELSE Decline("apply_click")
       \/ Fault /\ \E e \in PageErrors : Throw(e)
    /\ UNCHANGED <<side, message, success, dom, after, modal, scope, exits, pageVar,
                   caller, shotRet, reason, captures, applyBtn, clicks, fills,
                   shots, cancelled>>

\* `await dropdown_arrow.first.click()`: the menu opens, with or without the
\* "with cover letter" option
DropdownClick ==
    /\ pc = "b_click"
    /\ PageOp("click")
    /\ \/ /\ Ok
          /\ Click("dropdown")
          /\ \E o \in BOOLEAN : after' = [after EXCEPT !.with_letter = o]
          /\ Goto("b_settle")
       \/ /\ Fault
          /\ \E e \in PageErrors : Throw(e)
          /\ UNCHANGED <<clicks, after>>
    /\ UNCHANGED <<side, message, success, dom, modal, scope, exits, pageVar,
                   caller, shotRet, reason, captures, applyBtn, fills, shots,
                   invoked, cancelled>>

\* `await page.wait_for_timeout(500)`
DropdownSettle ==
    /\ pc = "b_settle"
    /\ PageOp("wait")
    /\ \/ Ok /\ Goto("b_opt_count")
       \/ Fault /\ \E e \in PageErrors : Throw(e)
    /\ UNCHANGED <<side, message, success, dom, after, modal, scope, exits, pageVar,
                   caller, shotRet, reason, captures, applyBtn, clicks, fills,
                   shots, invoked, cancelled>>

\* `with_letter_count = await with_letter_option.count()`
OptionCount ==
    /\ pc = "b_opt_count"
    /\ PageOp("count")
    /\ \/ /\ Ok
          /\ IF after.with_letter THEN Goto("b_opt_click") ELSE Decline("apply_click")
       \/ Fault /\ \E e \in PageErrors : Throw(e)
    /\ UNCHANGED <<side, message, success, dom, after, modal, scope, exits, pageVar,
                   caller, shotRet, reason, captures, applyBtn, clicks, fills,
                   shots, invoked, cancelled>>

\* `await with_letter_option.first.click()`, then the modal routine is called
OptionClick ==
    /\ pc = "b_opt_click"
    /\ PageOp("click")
    /\ \/ /\ Ok
          /\ Click("with_letter")
          /\ caller' = "B"
          /\ Goto("m_wait")
       \/ /\ Fault
          /\ \E e \in PageErrors : Throw(e)
          /\ UNCHANGED <<clicks, caller>>
    /\ UNCHANGED <<side, message, success, dom, after, modal, scope, exits, pageVar,
                   shotRet, reason, captures, applyBtn, fills, shots, invoked,
                   cancelled>>

----------------------------------------------------------------------------
(* apply: the standard apply click, then Strategy C *)

\* `await apply_btn.first.click()`: the page moves to whatever the site shows
\* after an application; each of its markers is fixed when it is first queried
ApplyClick ==
    /\ pc = "apply_click"
    /\ PageOp("click")
    /\ \/ /\ Ok
          /\ Click(IF applyBtn = "top" THEN "apply_top" ELSE "apply_bottom")
          /\ Goto("apply_settle")
       \/ /\ Fault
          /\ \E e \in PageErrors : Throw(e)
          /\ UNCHANGED clicks
    /\ UNCHANGED <<side, message, success, dom, after, modal, scope, exits, pageVar,
                   caller, shotRet, reason, captures, applyBtn, fills, shots,
                   invoked, cancelled>>

\* `await page.wait_for_timeout(2000)`, then the modal routine is called
ApplySettle ==
    /\ pc = "apply_settle"
    /\ PageOp("wait")
    /\ \/ /\ Ok
          /\ caller' = "C"
          /\ invoked' = invoked \cup {"C"}
          /\ Goto("m_wait")
       \/ /\ Fault
          /\ \E e \in PageErrors : Throw(e)
          /\ UNCHANGED <<caller, invoked>>
    /\ UNCHANGED <<side, message, success, dom, after, modal, scope, exits, pageVar,
                   shotRet, reason, captures, applyBtn, clicks, fills, shots,
                   cancelled>>

----------------------------------------------------------------------------
(* The shared modal routine: _fill_cover_letter_modal *)

\* where apply goes on when the routine's caller gets None from it
AfterModal ==
    CASE caller = "A" -> "top_count"
      [] caller = "B" -> "apply_click"
      [] OTHER        -> "d_rd_count"

\* `except Exception: return None`: the caller gets None and declines in turn;
\* the routine's view of the overlay is gone with it
ModalDecline == Decline(AfterModal) /\ modal' = NoModal

\* the routine returns a result; every caller returns it from apply
ModalResult(r) == Produce(r, AfterModal)

\* `await asyncio.sleep(1)` and `await page.wait_for_selector(overlay, timeout=5000)`:
\* an overlay is found, or the wait times out
ModalWait ==
    /\ pc = "m_wait"
    /\ PageOp("wait")
    /\ Ok
    /\ \/ /\ \E m \in Modals : modal' = m
          /\ Goto("m_add_count")
       \/ /\ modal' = NoModal
          /\ ModalDecline
    /\ UNCHANGED <<side, message, success, dom, after, scope, exits, pageVar,
                   caller, shotRet, reason, captures, applyBtn, clicks, fills,
                   shots, invoked, cancelled>>

\* `add_letter_count = await add_letter_btn.count()`
ModalAddCount ==
    /\ pc = "m_add_count"
    /\ PageOp("count")
    /\ \/ /\ Ok
          /\ UNCHANGED modal
          /\ IF modal.add THEN Goto("m_add_scroll") ELSE Goto("m_area_count")
       \/ /\ Fault
          /\ ModalDecline
    /\ UNCHANGED <<side, message, success, dom, after, scope, exits, pageVar,
                   caller, shotRet, reason, captures, applyBtn, clicks, fills,
                   shots, invoked, cancelled>>

\* `await add_letter_btn.first.scroll_into_view_if_needed()`
ModalAddScroll ==
    /\ pc = "m_add_scroll"
    /\ PageOp("scroll")
    /\ \/ /\ Ok
          /\ UNCHANGED modal
          /\ Goto("m_add_click")
       \/ /\ Fault
          /\ ModalDecline
    /\ UNCHANGED <<side, message, success, dom, after, scope, exits, pageVar,
                   caller, shotRet, reason, captures, applyBtn, clicks, fills,
                   shots, invoked, cancelled>>

\* `await add_letter_btn.first.click()`
ModalAddClick ==
    /\ pc = "m_add_click"
    /\ PageOp("click")
    /\ \/ /\ Ok
          /\ UNCHANGED modal
          /\ Click("modal_add")
          /\ Goto("m_add_settle")
       \/ /\ Fault
          /\ ModalDecline
          /\ UNCHANGED clicks
    /\ UNCHANGED <<side, message, success, dom, after, scope, exits, pageVar,
                   caller, shotRet, reason, captures, applyBtn, fills, shots,
                   invoked, cancelled>>

\* `await page.wait_for_timeout(500)`
ModalAddSettle ==
    /\ pc = "m_add_settle"
    /\ PageOp("wait")
    /\ \/ /\ Ok
          /\ UNCHANGED modal
          /\ Goto("m_area_count")
       \/ /\ Fault
          /\ ModalDecline
    /\ UNCHANGED <<side, message, success, dom, after, scope, exits, pageVar,
                   caller, shotRet, reason, captures, applyBtn, clicks, fills,
                   shots, invoked, cancelled>>

\* the guard of the fill in the modal
AreaGuard(count, msg) == count

\* `letter_area_count = await letter_area.count()`
ModalAreaCount ==
    /\ pc = "m_area_count"
    /\ PageOp("count")
    /\ \/ /\ Ok
          /\ UNCHANGED modal
          /\ IF AreaGuard(modal.area, message)
             THEN Goto("m_fill")
             ELSE Goto("m_sub_count")
       \/ /\ Fault
          /\ ModalDecline
    /\ UNCHANGED <<side, message, success, dom, after, scope, exits, pageVar,
                   caller, shotRet, reason, captures, applyBtn, clicks, fills,
                   shots, invoked, cancelled>>

\* `await letter_area.fill(message)`
ModalFill ==
    /\ pc = "m_fill"
    /\ PageOp("fill")
    /\ \/ /\ Ok
          /\ UNCHANGED modal
          /\ fills' = Append(fills, <<"modal_letter", message>>)
          /\ Goto("m_sub_count")
       \/ /\ Fault
          /\ ModalDecline
          /\ UNCHANGED fills
    /\ UNCHANGED <<side, message, success, dom, after, scope, exits, pageVar,
                   caller, shotRet, reason, captures, applyBtn, clicks, shots,
                   invoked, cancelled>>

\* the routine's answer when its submit lookup finds nothing
\* (NoSubmitDeclines: None instead of the error)
NoSubmitDeclines == Decline(AfterModal)
NoSubmit == ModalResult(Result("error", "Submit button not found"))

\* `submit_btn_count = await submit_btn.count()`
ModalSubmitCount ==
    /\ pc = "m_sub_count"
    /\ PageOp("count")
    /\ \/ /\ Ok
          /\ UNCHANGED modal
          /\ IF modal.submit THEN Goto("m_sub_scroll") ELSE NoSubmit
       \/ /\ Fault
          /\ ModalDecline
    /\ UNCHANGED <<side, message, success, dom, after, scope, exits, pageVar,
                   caller, shotRet, reason, captures, applyBtn, clicks, fills,
                   shots, invoked, cancelled>>

\* `await submit_btn.first.scroll_into_view_if_needed()`
ModalSubmitScroll ==
    /\ pc = "m_sub_scroll"
    /\ PageOp("scroll")
    /\ \/ /\ Ok
          /\ UNCHANGED modal
          /\ Goto("m_sub_click")
       \/ /\ Fault
          /\ ModalDecline
    /\ UNCHANGED <<side, message, success, dom, after, scope, exits, pageVar,
                   caller, shotRet, reason, captures, applyBtn, clicks, fills,
                   shots, invoked, cancelled>>

\* `await submit_btn.click()`
ModalSubmitClick ==
    /\ pc = "m_sub_click"
    /\ PageOp("click")
    /\ \/ /\ Ok
          /\ UNCHANGED modal
          /\ Click("modal_submit")
          /\ Goto("m_sub_settle")
       \/ /\ Fault
          /\ ModalDecline
          /\ UNCHANGED clicks
    /\ UNCHANGED <<side, message, success, dom, after, scope, exits, pageVar,
                   caller, shotRet, reason, captures, applyBtn, fills, shots,
                   invoked, cancelled>>

\* `await page.wait_for_timeout(3000)` and the return
ModalSubmitSettle ==
    /\ pc = "m_sub_settle"
    /\ PageOp("wait")
    /\ \/ /\ Ok
          /\ UNCHANGED modal
          /\ ModalResult(Result("success", "Applied with cover letter"))
       \/ /\ Fault
          /\ ModalDecline
    /\ UNCHANGED <<side, message, success, dom, after, scope, exits, pageVar,
                   caller, shotRet, reason, captures, applyBtn, clicks, fills,
                   shots, invoked, cancelled>>

----------------------------------------------------------------------------
(* Strategy D: _try_post_apply_letter *)

\* `resume_delivered_count = await resume_delivered.count()`
PostDeliveredCount ==
    /\ pc = "d_rd_count"
    /\ PageOp("count")
    /\ \/ /\ Ok
          /\ \E v \in BOOLEAN : after' = [after EXCEPT !.delivered = v]
          /\ invoked' = invoked \cup {"D"}
          /\ Goto("d_area_count")
       \/ /\ Fault
          /\ UNCHANGED after
          /\ \E e \in PageErrors : Throw(e)
          /\ UNCHANGED invoked
    /\ UNCHANGED <<side, message, success, dom, modal, scope, exits, pageVar,
                   caller, shotRet, reason, captures, applyBtn, clicks, fills,
                   shots, cancelled>>

\* `textarea_count = await page.locator("textarea").count()` and the screen test
PostAreaCount ==
    /\ pc = "d_area_count"
    /\ PageOp("count")
    /\ \/ /\ Ok
          /\ \E v \in BOOLEAN : after' = [after EXCEPT !.area = v]
          /\ IF after'.delivered \/ after'.area
             THEN Goto("d_area_count2")
             ELSE Decline("s_sent")
       \/ /\ Fault
          /\ UNCHANGED after
          /\ \E e \in PageErrors : Throw(e)
    /\ UNCHANGED <<side, message, success, dom, modal, scope, exits, pageVar,
                   caller, shotRet, reason, captures, applyBtn, clicks, fills,
                   shots, invoked, cancelled>>

\* the guard of the fill on the post-apply screen
PostGuard(count, msg) == count /\ Truthy(msg)

\* `letter_area_count = await letter_area.count()`
PostAreaRecount ==
    /\ pc = "d_area_count2"
    /\ PageOp("count")
    /\ \/ /\ Ok
          /\ IF PostGuard(after.area, message) THEN Goto("d_fill") ELSE Decline("s_sent")
       \/ /\ Fault
          /\ \E e \in PageErrors : Throw(e)
    /\ UNCHANGED <<side, message, success, dom, after, modal, scope, exits, pageVar,
                   caller, shotRet, reason, captures, applyBtn, clicks, fills,
                   shots, invoked, cancelled>>

\* `await letter_area.first.fill(message)`
PostFill ==
    /\ pc = "d_fill"
    /\ PageOp("fill")
    /\ \/ /\ Ok
          /\ fills' = Append(fills, <<"post_letter", message>>)
          /\ Goto("d_sub_count")
       \/ /\ Fault
          /\ \E e \in PageErrors : Throw(e)
          /\ UNCHANGED fills
    /\ UNCHANGED <<side, message, success, dom, after, modal, scope, exits, pageVar,
                   caller, shotRet, reason, captures, applyBtn, clicks, shots,
                   invoked, cancelled>>

\* `submit_btn_count = await submit_btn.count()`
PostSubmitCount ==
    /\ pc = "d_sub_count"
    /\ PageOp("count")
    /\ \/ /\ Ok
          /\ \E v \in BOOLEAN : after' = [after EXCEPT !.post_submit = v]
          /\ IF after'.post_submit THEN Goto("d_sub_click") ELSE Decline("s_sent")
       \/ /\ Fault
          /\ UNCHANGED after
          /\ \E e \in PageErrors : Throw(e)
    /\ UNCHANGED <<side, message, success, dom, modal, scope, exits, pageVar,
                   caller, shotRet, reason, captures, applyBtn, clicks, fills,
                   shots, invoked, cancelled>>

\* `await submit_btn.first.click()`
PostSubmitClick ==
    /\ pc = "d_sub_click"
    /\ PageOp("click")
    /\ \/ /\ Ok
          /\ Click("post_submit")
          /\ Goto("d_settle")
       \/ /\ Fault
          /\ \E e \in PageErrors : Throw(e)
          /\ UNCHANGED clicks
    /\ UNCHANGED <<side, message, success, dom, after, modal, scope, exits, pageVar,
                   caller, shotRet, reason, captures, applyBtn, fills, shots,
                   invoked, cancelled>>

\* `await page.wait_for_timeout(2000)` and the return
PostSettle ==
    /\ pc = "d_settle"
    /\ PageOp("wait")
    /\ \/ /\ Ok
          /\ Produce(Result("success", "Applied with post-apply cover letter"), "s_sent")
       \/ /\ Fault
          /\ \E e \in PageErrors : Throw(e)
    /\ UNCHANGED <<side, message, success, dom, after, modal, scope, exits, pageVar,
                   caller, shotRet, reason, captures, applyBtn, clicks, fills,
                   shots, invoked, cancelled>>

----------------------------------------------------------------------------
(* apply: the final success check *)

\* _check_application_success, first selector
SuccessSent ==
    /\ pc = "s_sent"
    /\ PageOp("count")
    /\ \/ /\ Ok
          /\ \E v \in BOOLEAN : after' = [after EXCEPT !.sent = v]
          /\ IF after'.sent
             THEN /\ success' = "yes"
                  /\ Return(Result("success", "Applied successfully"))
             ELSE /\ Goto("s_applied")
                  /\ UNCHANGED success
       \/ /\ Fault
          /\ UNCHANGED after
          /\ \E e \in PageErrors : Throw(e)
          /\ UNCHANGED success
    /\ UNCHANGED <<side, message, dom, modal, scope, exits, pageVar, caller,
                   shotRet, reason, captures, applyBtn, clicks, fills, shots,
                   invoked, cancelled>>

\* _check_application_success, second selector
SuccessApplied ==
    /\ pc = "s_applied"
    /\ PageOp("count")
    /\ \/ /\ Ok
          /\ \E v \in BOOLEAN : after' = [after EXCEPT !.applied = v]
          /\ IF after'.applied
             THEN /\ success' = "yes"
                  /\ Return(Result("success", "Applied successfully"))
             ELSE /\ Goto("s_delivered")
                  /\ UNCHANGED success
       \/ /\ Fault
          /\ UNCHANGED after
          /\ \E e \in PageErrors : Throw(e)
          /\ UNCHANGED success
    /\ UNCHANGED <<side, message, dom, modal, scope, exits, pageVar, caller,
                   shotRet, reason, captures, applyBtn, clicks, fills, shots,
                   invoked, cancelled>>

\* _check_application_success, third selector; without a marker apply
\* captures "status unclear"
SuccessDelivered ==
    /\ pc = "s_delivered"
    /\ PageOp("count")
    /\ \/ /\ Ok
          /\ IF after.delivered
             THEN /\ success' = "yes"
                  /\ Return(Result("success", "Applied successfully"))
                  /\ UNCHANGED <<reason, shotRet, captures>>
             ELSE /\ success' = "no"
                  /\ CallShot(TagStatusUnclear, "unclear")
       \/ /\ Fault
          /\ \E e \in PageErrors : Throw(e)
          /\ UNCHANGED <<success, reason, shotRet, captures>>
    /\ UNCHANGED <<side, message, dom, after, modal, scope, exits, pageVar, caller,
                   applyBtn, clicks, fills, shots, invoked, cancelled>>

----------------------------------------------------------------------------
(* Diagnostic capture: _save_screenshot *)

\* the session provider released the page: operations on it fail
PageReleased == scope = "closed"

\* where control goes when _save_screenshot returns
ShotReturn ==
    CASE shotRet = "nav"     -> Goto("bot_title")
      [] shotRet = "unclear" -> Return(Result("success", "Applied (status unclear)"))
      [] OTHER               -> /\ pc' = "done"
                                /\ outcome' = Result("error", outcome.exc)
                                /\ UNCHANGED result

\* an exception leaves _save_screenshot: inside the `async with` body it goes
\* through the scope exit to apply's except clauses; raised from the last
\* except clause it leaves apply
ShotRaise(e) ==
    IF shotRet = "handler"
    THEN pc' = "done" /\ outcome' = Raised(e) /\ UNCHANGED result
    ELSE Throw(e)

\* `screenshots_dir.mkdir(parents=True, exist_ok=True)`, outside the try
ShotMkdir ==
    /\ pc = "shot_mkdir"
    /\ \/ Goto("shot_write") /\ UNCHANGED failed
       \/ ShotRaise("OSError") /\ failed' = failed \cup {pc}
    /\ UNCHANGED <<side, message, success, dom, after, modal, scope, exits, pageVar,
                   caller, shotRet, reason, captures, applyBtn, clicks, fills,
                   shots, invoked, pageOps, staleOps, faults, cancelled>>

\* `await page.screenshot(path=..., full_page=True)` inside try/except Exception
ShotWrite ==
    /\ pc = "shot_write"
    /\ PageOp("screenshot")
    /\ \E saved \in (IF PageReleased THEN {FALSE} ELSE BOOLEAN) :
          shots' = Append(shots, [tag |-> SafeReason(reason), saved |-> saved])
    /\ ShotReturn
    /\ UNCHANGED <<side, message, success, dom, after, modal, scope, exits, pageVar,
                   caller, shotRet, reason, captures, applyBtn, clicks, fills,
                   invoked, faults, failed, cancelled>>

----------------------------------------------------------------------------
(* apply: leaving the scope, and the except clauses *)

\* the `async with` block is left: __aexit__ runs, with the return value or
\* the exception in flight
ExitScope ==
    /\ pc = "aexit"
    /\ scope' = "closed"
    /\ exits' = exits + 1
    /\ pc' = IF outcome.kind = "return" THEN "done" ELSE "except"
    /\ UNCHANGED <<side, message, success, dom, after, modal, pageVar, outcome,
                   result, caller, shotRet, reason, captures, applyBtn,
                   clicks, fills, shots, invoked, pageOps, staleOps, faults,
                   failed, cancelled>>

\* `except FileNotFoundError` / `except Exception`; CancelledError is a
\* BaseException and matches neither
Except ==
    /\ pc = "except"
    /\ IF outcome.exc = "CancelledError"
       THEN /\ pc' = "done"
            /\ UNCHANGED <<outcome, result, reason, shotRet, captures>>
       ELSE IF outcome.exc # "FileNotFoundError" /\ pageVar
       THEN /\ CallShot(TagApplyError, "handler")
       ELSE /\ pc' = "done"
            /\ outcome' = Result("error", outcome.exc)
            /\ UNCHANGED <<result, reason, shotRet, captures>>
    /\ UNCHANGED <<side, message, success, dom, after, modal, scope, exits, pageVar,
                   caller, applyBtn, clicks, fills, shots, invoked, pageOps,
                   staleOps, faults, failed, cancelled>>

\* the task running apply is cancelled while suspended in an await
Cancel ==
    /\ ~cancelled
    /\ cancelled' = TRUE
    /\ \/ /\ scope = "open"
          /\ pc \notin {"aexit", "shot_mkdir"}
          /\ Throw("CancelledError")
       \/ /\ scope = "closed"
          /\ pc = "shot_write"
          /\ pc' = "done"
          /\ outcome' = Raised("CancelledError")
          /\ UNCHANGED result
    /\ UNCHANGED <<side, message, success, dom, after, modal, scope, exits, pageVar,
                   caller, shotRet, reason, captures, applyBtn, clicks, fills,
                   shots, invoked, pageOps, staleOps, faults, failed>>

----------------------------------------------------------------------------

Next ==
    \/ Acquire
    \/ Navigate
    \/ BotTitle
    \/ BotContent
    \/ CheckAlreadyApplied
    \/ LinkCount
    \/ LinkClick
    \/ TopCount
    \/ BtnCount
    \/ DropdownCount
    \/ DropdownClick
    \/ DropdownSettle
    \/ OptionCount
    \/ OptionClick
    \/ ApplyClick
    \/ ApplySettle
    \/ ModalWait
    \/ ModalAddCount
    \/ ModalAddScroll
    \/ ModalAddClick
    \/ ModalAddSettle
    \/ ModalAreaCount
    \/ ModalFill
    \/ ModalSubmitCount
    \/ ModalSubmitScroll
    \/ ModalSubmitClick
    \/ ModalSubmitSettle
    \/ PostDeliveredCount
    \/ PostAreaCount
    \/ PostAreaRecount
    \/ PostFill
    \/ PostSubmitCount
    \/ PostSubmitClick
    \/ PostSettle
    \/ SuccessSent
    \/ SuccessApplied
    \/ SuccessDelivered
    \/ ShotMkdir
    \/ ShotWrite
    \/ ExitScope
    \/ Except
    \/ Cancel

Spec == Init /\ [][Next]_vars

----------------------------------------------------------------------------
(* cli.login: get_cookies *)

\* no call of apply is under way
BlankPage == [title |-> <<>>, content |-> <<>>, applied |-> FALSE, link |-> FALSE,
              top |-> FALSE, bottom |-> FALSE, dropdown |-> FALSE]
ApplyIdle == ApplyStart(<<>>, BlankPage)

\* `state.get("cookies", [])`
StateGet(s) == IF s.keyed THEN s.cookies ELSE <<>>

\* f"{c['name']}={c['value']}"
Pair(c) == c.name \o <<"=">> \o c.value

\* sep.join(parts) (JoinTrailing: the separator after every part)
RECURSIVE JoinTrailing(_, _)
JoinTrailing(sep, parts) ==
    IF parts = <<>> THEN <<>>
    ELSE Head(parts) \o sep \o JoinTrailing(sep, Tail(parts))
RECURSIVE Join(_, _)
Join(sep, parts) ==
    IF parts = <<>> THEN <<>>
    ELSE IF Len(parts) = 1 THEN Head(parts)
    ELSE Head(parts) \o sep \o Join(sep, Tail(parts))

CookieSep == <<";", " ">>

\* a str returned by get_cookies
Str(s) == [kind |-> "str", value |-> s]

CookieInit ==
    /\ ApplyIdle
    /\ session \in Sessions
    /\ header = NotCalled
    /\ clock = 0
    /\ capt = [i \in Invocations |-> IdleCapture]
    /\ disk = {}

\* get_cookies()
GetCookies ==
    /\ header = NotCalled
    /\ header' =
          IF ~session.exists
          THEN None
          ELSE LET cookies == StateGet(session)
               IN  Str(Join(CookieSep, [i \in 1..Len(cookies) |-> Pair(cookies[i])]))
    /\ UNCHANGED <<applyVars, session, clock, capt, disk>>

CookieNext == GetCookies

CookieSpec == CookieInit /\ [][CookieNext]_vars

----------------------------------------------------------------------------
(* _save_screenshot called by concurrently running applies *)

\* clock ticks in one second: "%Y%m%d_%H%M%S" keeps whole seconds
TicksPerSecond == 2

\* datetime.utcnow().strftime("%Y%m%d_%H%M%S")
Timestamp(now) == now \div TicksPerSecond

\* the reasons apply passes to _save_screenshot
ApplyTags == {TagNavigationTimeout, TagNavigationError, TagStatusUnclear,
              TagApplyError}

TagChars == {"a", "B", "_", " ", "-"}

\* the reasons _save_screenshot may be given
Tags == UNION {[1..n -> TagChars] : n \in 0..MaxTagLen}

\* screenshots_dir / f"{timestamp}_{safe_reason}.png"
Path(c) == <<c.stamp, c.tag>>

\* `await self._save_screenshot(page, r)` with r among rs
CaptCallWith(i, rs) ==
    /\ capt[i].pc = "idle"
    /\ \E r \in rs : capt' = [capt EXCEPT ![i].pc = "called", ![i].reason = r]
    /\ UNCHANGED <<applyVars, session, header, clock, disk>>

CaptCall(i) == CaptCallWith(i, ApplyTags)

\* safe_reason and timestamp are computed
CaptStamp(i) ==
    /\ capt[i].pc = "called"
    /\ capt' = [capt EXCEPT ![i].pc = "mkdir",
                            ![i].tag = SafeReason(capt[i].reason),
                            ![i].stamp = Timestamp(clock)]
    /\ UNCHANGED <<applyVars, session, header, clock, disk>>

\* `screenshots_dir.mkdir(parents=True, exist_ok=True)`
CaptMkdir(i) ==
    /\ capt[i].pc = "mkdir"
    /\ \E p \in {"write", "raised"} : capt' = [capt EXCEPT ![i].pc = p]
    /\ UNCHANGED <<applyVars, session, header, clock, disk>>

\* `await page.screenshot(path=str(screenshot_path), full_page=True)`: the
\* image replaces whatever the path held, or the call raises and is logged
CaptWrite(i) ==
    /\ capt[i].pc = "write"
    /\ \/ /\ disk' = {f \in disk : f.path # Path(capt[i])}
                         \cup {[path |-> Path(capt[i]), by |-> i]}
          /\ capt' = [capt EXCEPT ![i].pc = "done", ![i].saved = TRUE]
       \/ /\ capt' = [capt EXCEPT ![i].pc = "done"]
          /\ UNCHANGED disk
    /\ UNCHANGED <<applyVars, session, header, clock>>

\* time passes
Tick ==
    /\ clock < MaxClock
    /\ clock' = clock + 1
    /\ UNCHANGED <<applyVars, session, header, capt, disk>>

CaptureInit == ApplyIdle /\ SideIdle

CaptureNext ==
    \/ \E i \in Invocations : CaptCall(i)
    \/ \E i \in Invocations : CaptStamp(i)
    \/ \E i \in Invocations : CaptMkdir(i)
    \/ \E i \in Invocations : CaptWrite(i)
    \/ Tick

CaptureSpec == CaptureInit /\ [][CaptureNext]_vars

\* one call of _save_screenshot, with any reason
TagNext ==
    \/ CaptCallWith(1, Tags)
    \/ CaptStamp(1)
    \/ CaptMkdir(1)
    \/ CaptWrite(1)

TagSpec == CaptureInit /\ [][TagNext]_vars

----------------------------------------------------------------------------
(* Properties *)

Finished == pc = "done"

\* apply returned a value to its caller
Returned == Finished /\ outcome.kind = "return"

NoClicks == \A c \in Controls : clicks[c] = 0

ApplyClicks == clicks["apply_top"] + clicks["apply_bottom"]

\* the captures that reached page.screenshot with the given sanitised tag
ShotsTagged(tag) == {i \in 1..Len(shots) : shots[i].tag = tag}

\* _save_screenshot was called with reason r
Captured(r) == \E i \in 1..Len(captures) : captures[i] = r

\* C1: apply never raises to its caller: unless the call is cancelled, it
\* finishes by returning a result, whatever step raised (acquisition,
\* navigation, a detector, a strategy interaction or a diagnostic capture).
C1_NeverRaises == (Finished /\ ~cancelled) => outcome.kind = "return"

\* C4: once apply has acquired a page, the scope is exited exactly once
\* before apply finishes, on every exit path (return, exception, cancel);
\* a scope that was never entered is never exited.
C4_ScopeExitedOnce ==
    /\ exits <= 1
    /\ (exits = 1) = (scope = "closed")
    /\ scope # "none" => pageVar
    /\ (Finished /\ pageVar) => (exits = 1 /\ scope = "closed")
    /\ (Finished /\ ~pageVar) => (exits = 0 /\ scope = "none")

\* C4 witness: a call cancelled after it acquired the page has finished
\* with the scope exited once
C4_Witness ==
    /\ Finished
    /\ cancelled
    /\ pageVar
    /\ exits = 1

\* C10: a failure inside a diagnostic capture never changes the outcome of
\* apply: after the "status unclear" capture apply returns
\* Success("Applied (status unclear)"), after the "apply_error" capture it
\* returns Error with the message of the exception being handled, and after
\* a navigation capture the detectors run, whether the capture failed or not.
C10_CaptureNeverAlters ==
    (Finished /\ ~cancelled) =>
        /\ Captured(TagStatusUnclear) =>
              outcome = Result("success", "Applied (status unclear)")
        /\ Captured(TagApplyError) =>
              (outcome.kind = "return" /\ outcome.status = "error")
        /\ (Captured(TagNavigationTimeout) \/ Captured(TagNavigationError)) =>
              "title" \in pageOps

\* a challenge marker ("captcha" or "robot", any case) in the title or body
ChallengeMarker(d) ==
    \E s \in {d.title, d.content}, m \in {StrCaptcha, StrRobot} :
        Contains(Lower(s), m)

Skipped == Result("skipped", "Already applied")

\* C2 as stated: a page carrying the already-applied marker always gives
\* Skipped, with no click and no fill (taken on the calls where no step
\* raises and that are not cancelled).
C2_AlwaysSkipped ==
    dom.applied =>
        /\ NoClicks /\ fills = <<>>
        /\ (Finished /\ faults = 0 /\ failed = {} /\ ~cancelled) => outcome = Skipped

\* C2 amended: on a page carrying the already-applied marker apply performs
\* no click and no fill and calls no strategy, and its page operations are
\* the navigation, the detector reads and diagnostic screenshots; it
\* returns Skipped whenever the already-applied detection is reached, that
\* is unless bot protection is detected first or an earlier step raises.
C2_Idempotent ==
    dom.applied =>
        /\ NoClicks /\ fills = <<>> /\ invoked = {}
        /\ pageOps \subseteq {"goto", "title", "content", "count", "screenshot"}
        /\ (Finished /\ "count" \in pageOps /\ "applied_count" \notin failed)
              => outcome = Skipped
        /\ (Finished /\ outcome.kind = "return" /\ outcome.status = "skipped")
              => ("count" \in pageOps /\ ~BotProtection(dom.title, dom.content))

C2_Witness ==
    /\ Finished
    /\ dom.applied
    /\ "goto" \in failed
    /\ outcome = Skipped

\* C3: whenever the title or the body carries a challenge marker, no
\* strategy is called, nothing is clicked or filled, and apply returns Error
\* with a message about the captcha (taken on the calls where no step raises
\* and that are not cancelled).
C3_ShortCircuit ==
    (ChallengeMarker(dom) /\ faults = 0 /\ failed = {} /\ ~cancelled) =>
        /\ invoked = {}
        /\ NoClicks /\ fills = <<>>
        /\ Finished => outcome = Result("error", "Bot protection triggered (captcha)")

SubmitNotFound == Result("error", "Submit button not found")

\* C5 as stated: whenever the modal routine was entered, the overlay
\* appeared and it has no submit control, the routine is left only with
\* Error("Submit button not found"), which apply returns.
C5_AlwaysSubmitError ==
    [][(pc \in ModalPcs /\ modal.shown /\ ~modal.submit /\ ~cancelled')
          => (pc' \in ModalPcs \/ outcome' = SubmitNotFound)]_vars

\* C5 amended: whenever the modal routine, entered from A, B or C, completes
\* its submit lookup and finds no submit control, it answers
\* Error("Submit button not found"), apply returns exactly that, and no later
\* strategy or step runs; an exception raised earlier in the routine makes
\* it decline instead.
C5_SubmitLookup ==
    (pc = "m_sub_count" /\ pc' # pc /\ faults' = faults /\ ~cancelled' /\ ~modal.submit)
        => (pc' = "aexit" /\ outcome' = SubmitNotFound /\ result' = SubmitNotFound)

C5_Committed ==
    outcome = SubmitNotFound =>
        /\ pc \in {"aexit", "done"}
        /\ modal.shown /\ ~modal.submit
        /\ caller = "A" => (invoked = {"A"} /\ ApplyClicks = 0)
        /\ caller = "B" => (invoked = {"A", "B"} /\ ApplyClicks = 0)
        /\ caller = "C" => "D" \notin invoked
        /\ success = "unknown"

C5_NoSubmitIsError == [][C5_SubmitLookup]_vars /\ []C5_Committed

C5_Witness ==
    /\ Finished
    /\ outcome = SubmitNotFound
    /\ caller = "B"
    /\ modal.area

\* Strategy A (the routine entered from the link) produced the result held
\* by apply
ProducedByA == caller = "A" /\ result # None

\* C6: with a cover-letter link, a dropdown expander and a non-empty message,
\* Strategy A is called before anything else of the chain, and once it has
\* produced a result Strategy B is never called, neither the expander nor the
\* primary apply control is clicked, and apply returns A's result.
C6_PriorityOrdering ==
    (dom.link /\ dom.dropdown /\ Truthy(message)) =>
        /\ invoked # {} => "A" \in invoked
        /\ (clicks["dropdown"] > 0 \/ ApplyClicks > 0) => clicks["link"] > 0
        /\ ProducedByA =>
              /\ invoked = {"A"}
              /\ clicks["dropdown"] = 0 /\ clicks["with_letter"] = 0
              /\ ApplyClicks = 0
              /\ pc \in {"aexit", "done"}
              /\ outcome = result

C6_Witness ==
    /\ Finished
    /\ dom.link /\ dom.dropdown /\ dom.top /\ Truthy(message)
    /\ ProducedByA
    /\ outcome = Result("success", "Applied with cover letter")

\* positions inside Strategies A, B and D that lie behind their message guard
GuardedPcs == {"a_click", "b_click", "b_settle", "b_opt_count", "b_opt_click",
               "d_fill", "d_sub_count", "d_sub_click", "d_settle"}

\* C7: with an empty message Strategies A, B and D decline whatever the page
\* shows: none of them gets behind its guard, clicks or fills anything or
\* enters the modal routine, none produces a result, and apply goes on with
\* the step after the strategy.
C7_EmptyMessageGuard ==
    message = <<>> =>
        /\ pc \notin GuardedPcs
        /\ clicks["link"] = 0 /\ clicks["dropdown"] = 0
        /\ clicks["with_letter"] = 0 /\ clicks["post_submit"] = 0
        /\ \A i \in 1..Len(fills) : fills[i][1] # "post_letter"
        /\ caller \notin {"A", "B"}
        /\ result # None =>
              /\ caller = "C"
              /\ pc \in {"aexit", "except", "done", "shot_mkdir", "shot_write"}
        /\ outcome # Result("success", "Applied with post-apply cover letter")
        /\ "B" \in invoked => "A" \in invoked
        /\ "D" \in invoked => ({"A", "B"} \subseteq invoked /\ ApplyClicks = 1)

C7_Witness ==
    /\ message = <<>>
    /\ dom.link /\ dom.dropdown
    /\ after.delivered /\ after.area
    /\ pc = "s_sent"
    /\ result = None
    /\ invoked = {"A", "B", "C", "D"}

\* C8: once the apply control was clicked and Strategies A-D produced
\* nothing, apply returns Success("Applied (status unclear)") after exactly
\* one capture tagged status_unclear when the success check finds no marker,
\* and Success("Applied successfully") without such a capture when it finds
\* one.
C8_AmbiguousCompletion ==
    (Finished /\ ~cancelled) =>
        /\ success = "no" =>
              /\ ~ApplicationSuccess(after)
              /\ outcome = Result("success", "Applied (status unclear)")
              /\ Cardinality(ShotsTagged(SafeReason(TagStatusUnclear))) = 1
              /\ SafeReason(TagStatusUnclear) =
                    <<"s", "t", "a", "t", "u", "s", "_", "u", "n", "c", "l", "e", "a", "r">>
        /\ success = "yes" =>
              /\ ApplicationSuccess(after)
              /\ outcome = Result("success", "Applied successfully")
              /\ ~Captured(TagStatusUnclear)

\* C9: a navigation that times out or fails does not stop apply: the
\* detectors still run, and a page carrying the already-applied marker (and
\* no bot protection) still gives Skipped("Already applied").
C9_NavigationTolerated ==
    (Finished /\ ~cancelled /\ "goto" \in failed) =>
        /\ "title" \in pageOps
        /\ (/\ dom.applied
            /\ ~BotProtection(dom.title, dom.content)
            /\ failed \cap {"bot_title", "bot_content", "applied_count"} = {})
              => outcome = Skipped

----------------------------------------------------------------------------
(* Properties of get_cookies *)

\* the rendered length of one cookie
PairLen(c) == Len(c.name) + 1 + Len(c.value)

\* how many characters of the header precede the i-th entry
RECURSIVE Offset(_, _)
Offset(cs, i) ==
    IF i = 1 THEN 0 ELSE Offset(cs, i - 1) + PairLen(cs[i - 1]) + Len(CookieSep)

\* C11: get_cookies returns None exactly when there is no session file;
\* otherwise the header holds, for every stored cookie in the stored order,
\* its name, "=" and its value, with "; " between consecutive entries and
\* nothing before the first entry or after the last.
C11_CookieHeader ==
    header # NotCalled =>
        /\ (header = None) = ~session.exists
        /\ session.exists =>
              LET cs == session.cookies
                  h  == header.value
                  n  == Len(cs)
              IN  /\ header.kind = "str"
                  /\ Len(h) = IF n = 0 THEN 0 ELSE Offset(cs, n) + PairLen(cs[n])
                  /\ \A i \in 1..n :
                        LET o == Offset(cs, i)
                            k == Len(cs[i].name)
                        IN  /\ SubSeq(h, o + 1, o + k) = cs[i].name
                            /\ h[o + k + 1] = "="
                            /\ SubSeq(h, o + k + 2, o + PairLen(cs[i])) = cs[i].value
                            /\ i < n => SubSeq(h, o + PairLen(cs[i]) + 1,
                                                   o + PairLen(cs[i]) + 2) = CookieSep

\* a header of several cookies whose last value is empty
C11_Witness ==
    /\ header # NotCalled
    /\ session.exists
    /\ Len(session.cookies) >= 2
    /\ session.cookies[Len(session.cookies)].value = <<>>
    /\ header.value # <<>>

----------------------------------------------------------------------------
(* Properties of the strategy chain *)

\* C12: the modal textarea is filled only with a non-empty message: with an
\* empty message (the routine is then entered from the step after the raw
\* apply click) no fill is invoked on the modal.
C12_ModalFillNeedsMessage ==
    \A i \in 1..Len(fills) : fills[i][1] = "modal_letter" => Truthy(fills[i][2])

\* the clicks, fills and waits of Strategies A-D
InteractionSites == {"a_click", "b_click", "b_settle", "b_opt_click", "modal",
                     "d_fill", "d_sub_click", "d_settle"}

\* C13: when the only operations that raised are clicks, fills or waits of
\* Strategies A-D, apply does not end with Error carrying the exception's
\* message.
C13_InteractionTolerated ==
    (Finished /\ ~cancelled /\ failed # {} /\ failed \subseteq InteractionSites) =>
        \A e \in PageErrors : outcome # Result("error", e)

\* apply got as far as the second count of the primary control, which
\* answered
PrimaryLookedUp == applyBtn # "none" /\ pc # "btn_count" /\ "btn_count" \notin failed

\* C14: the top control is the one clicked whenever it is visible, the
\* bottom one only when the top one is not and the bottom one is; when
\* neither is visible and the lookup completes, apply returns
\* Error("Apply button not found"), Strategy B is not called and no apply
\* control is clicked.
C14_PrimaryControl ==
    /\ clicks["apply_top"] > 0 => dom.top
    /\ clicks["apply_bottom"] > 0 => (~dom.top /\ dom.bottom)
    /\ (~dom.top /\ ~dom.bottom) =>
          /\ "B" \notin invoked
          /\ ApplyClicks = 0
          /\ (PrimaryLookedUp /\ ~cancelled) =>
                /\ pc \in {"aexit", "done"}
                /\ outcome = Result("error", "Apply button not found")

\* the fallback to the bottom control was taken and the control clicked
C14_Witness ==
    /\ Finished
    /\ ~dom.top /\ dom.bottom
    /\ clicks["apply_bottom"] = 1
    /\ outcome = Result("success", "Applied successfully")

\* C16: no page operation is invoked once the scope of the page was exited.
C16_NoStaleOps == staleOps = {}

\* C17: the submit control of the modal is clicked at most once in one call.
C17_SubmitOnce == clicks["modal_submit"] <= 1

AppliedWithLetter == Result("success", "Applied with cover letter")

\* C18: Success("Applied with cover letter") is returned only after the
\* modal textarea was filled with a non-empty message.
C18_LetterWasFilled ==
    outcome = AppliedWithLetter =>
        \E i \in 1..Len(fills) : fills[i][1] = "modal_letter" /\ Truthy(fills[i][2])

\* clicks on a submit control or on the primary apply control
SubmittingClicks == clicks["modal_submit"] + clicks["post_submit"] + ApplyClicks

\* C20: a Success result is never produced without an earlier click on a
\* submit control or on the primary apply control, and never on a page where
\* bot protection or the already-applied marker is detected.
C20_SuccessNeedsClick ==
    (outcome.kind = "return" /\ outcome.status = "success") =>
        /\ SubmittingClicks > 0
        /\ ~BotProtection(dom.title, dom.content)
        /\ ~dom.applied
        /\ {"title", "content", "count"} \subseteq pageOps

\* Success after the post-apply submit click
C20_Witness ==
    /\ Finished
    /\ outcome = Result("success", "Applied with post-apply cover letter")
    /\ clicks["post_submit"] = 1
    /\ "goto" \in failed

----------------------------------------------------------------------------
(* Properties of _save_screenshot *)

\* the elements of a set of numbers, in ascending order
Ascending(S) ==
    [k \in 1..Cardinality(S) |->
        CHOOSE i \in S : Cardinality({j \in S : j < i}) = k - 1]

\* r lower-cased, with each run of characters outside [a-zA-Z0-9_-] turned
\* into one "_" (the first character of the run stands for it)
CollapsedTag(r) ==
    LET kept == Ascending({i \in 1..Len(r) :
                              SafeChar(r[i]) \/ i = 1 \/ SafeChar(r[i - 1])})
    IN  [k \in 1..Len(kept) |->
            IF SafeChar(r[kept[k]]) THEN LowerChar(r[kept[k]]) ELSE "_"]

\* CollapsedTag(r) without its leading and trailing "_"
TrimmedTag(r) ==
    LET c    == CollapsedTag(r)
        core == {k \in 1..Len(c) : c[k] # "_"}
    IN  IF core = {} THEN <<>>
        ELSE SubSeq(c, CHOOSE k \in core : \A j \in core : k <= j,
                       CHOOSE k \in core : \A j \in core : j <= k)

\* the characters of [a-z0-9_-]
TagChar(c) == InSeq(c, LowerAlpha) \/ InSeq(c, Digits) \/ c = "_" \/ c = "-"

\* the calls of _save_screenshot that have computed safe_reason
Stamped == {i \in Invocations : capt[i].pc \notin {"idle", "called"}}

\* C15 as stated: the sanitised tag is the reason lower-cased with the
\* characters outside [a-zA-Z0-9_-] collapsed to "_" and every other
\* character kept, "error" exactly when that is empty; it is never empty and
\* made of [a-z0-9_-] only.
C15_CollapsedOnly ==
    \A i \in Stamped :
        /\ capt[i].tag = IF CollapsedTag(capt[i].reason) = <<>>
                         THEN StrError
                         ELSE CollapsedTag(capt[i].reason)
        /\ capt[i].tag # <<>>
        /\ \A k \in 1..Len(capt[i].tag) : TagChar(capt[i].tag[k])

\* C15 amended: the sanitised tag is the reason lower-cased with each run of
\* characters outside [a-zA-Z0-9_-] collapsed to one "_", and then with every
\* leading and trailing "_" removed (those of the reason included); it is
\* "error" exactly when that is empty; it is never empty and made of
\* [a-z0-9_-] only.
C15_Sanitised ==
    \A i \in Stamped :
        /\ capt[i].tag = IF TrimmedTag(capt[i].reason) = <<>>
                         THEN StrError
                         ELSE TrimmedTag(capt[i].reason)
        /\ capt[i].tag # <<>>
        /\ \A k \in 1..Len(capt[i].tag) : TagChar(capt[i].tag[k])

\* a reason with an underscore of its own in front, a capital and a trailing
\* blank was sanitised
C15_Witness ==
    /\ capt[1].pc = "done"
    /\ capt[1].reason = <<"_", "B", " ">>
    /\ capt[1].tag = <<"b">>

\* C19: two captures that saved an image did not write to the same path, and
\* the image of every such capture is still the one at its path.
C19_NoSharedPath ==
    \A i \in Invocations :
        capt[i].saved =>
            /\ [path |-> Path(capt[i]), by |-> i] \in disk
            /\ \A j \in Invocations \ {i} :
                  capt[j].saved => Path(capt[j]) # Path(capt[i])

====
